---- MODULE Spec2Model ----
(***************************************************************************)
(* The mgrep watch hooks: mgrep_watch.py (the launcher, run at session     *)
(* start) and mgrep_watch_kill.py (the terminator, run at session end).    *)
(* The two scripts are separate invocations that share only the record     *)
(* file <TEMP_DIR>/mgrep-watch-pid-<session_id>.txt and the operating      *)
(* system's process table.  Every invocation is a slot of `inv`; its       *)
(* blocking system calls are the steps, so that invocations interleave at  *)
(* system-call granularity.                                                *)
(***************************************************************************)
EXTENDS Integers, Sequences, FiniteSets, TLC

(***************************************************************************)
(* Bounds of the model.                                                    *)
(***************************************************************************)
\* Number of hook invocations in one behaviour.
NumInv == 2
\* The operating system hands out two pids, FirstPid and the one after it.
FirstPid == 9
\* Largest value the C int behind pid_t holds (scaled down from 2^31 - 1).
PidTMax == 32767

Invs == 1 .. NumInv
PidPool == {FirstPid, FirstPid + 1}

(***************************************************************************)
(* Text.  A text is a sequence of one-character strings, so that str() and *)
(* int() are computed digit by digit.                                      *)
(***************************************************************************)
DigitChars == <<"0", "1", "2", "3", "4", "5", "6", "7", "8", "9">>
Whitespace == {" ", "\n"}

IsDigit(c) == \E i \in 1 .. 10 : DigitChars[i] = c
DigitVal(c) == (CHOOSE i \in 1 .. 10 : DigitChars[i] = c) - 1

\* str(n) of a Python int.
RECURSIVE StrNat(_)
StrNat(n) == IF n < 10 THEN <<DigitChars[n + 1]>>
             ELSE StrNat(n \div 10) \o <<DigitChars[(n % 10) + 1]>>
str(n) == IF n < 0 THEN <<"-">> \o StrNat(0 - n) ELSE StrNat(n)

\* text.strip(): leading and trailing whitespace removed.
RECURSIVE lstrip(_)
lstrip(t) == IF t # <<>> /\ Head(t) \in Whitespace THEN lstrip(Tail(t)) ELSE t
RECURSIVE rstrip(_)
rstrip(t) == IF t # <<>> /\ t[Len(t)] \in Whitespace
             THEN rstrip(SubSeq(t, 1, Len(t) - 1)) ELSE t
strip(t) == rstrip(lstrip(t))

RECURSIVE DigitsVal(_)
DigitsVal(t) == IF t = <<>> THEN 0
                ELSE 10 * DigitsVal(SubSeq(t, 1, Len(t) - 1)) + DigitVal(t[Len(t)])

\* int(text): an optional sign and one or more decimal digits, whitespace
\* around them ignored; anything else raises ValueError.
IntBody(t) == IF t # <<>> /\ Head(t) \in {"-", "+"} THEN Tail(t) ELSE t
IntParses(text) ==
    LET b == IntBody(strip(text))
    IN  b # <<>> /\ \A i \in 1 .. Len(b) : IsDigit(b[i])
int(text) ==
    LET s == strip(text)
        v == DigitsVal(IntBody(s))
    IN  IF Head(s) = "-" THEN 0 - v ELSE v

(***************************************************************************)
(* Hook input.  The host hands each hook one JSON object on standard       *)
(* input; standard input may also be blank or not be JSON at all.          *)
(***************************************************************************)
SENTINEL == "unknown"
Sessions == {"abc", SENTINEL}

EmptyDict == [k \in {} |-> ""]
StdinBlank == [shape |-> "blank", fields |-> EmptyDict]
StdinNotJson == [shape |-> "notjson", fields |-> EmptyDict]
StdinObject(d) == [shape |-> "object", fields |-> d]

Stdins ==
    { StdinBlank, StdinNotJson,
      StdinObject(EmptyDict),
      StdinObject([k \in {"session_id"} |-> "abc"]),
      StdinObject([k \in {"cwd"} |-> "/w"]) }

NoneValue == [none |-> TRUE, dict |-> EmptyDict]
Some(d) == [none |-> FALSE, dict |-> d]

\* read_hook_input(): None for blank input and for a JSONDecodeError, else
\* the decoded object.
read_hook_input(raw) ==
    IF raw.shape = "blank" THEN NoneValue
    ELSE IF raw.shape = "notjson" THEN NoneValue
    ELSE Some(raw.fields)

\* Python's truth value of the payload: None and the empty dict are false.
Truthy(payload) == ~payload.none /\ DOMAIN payload.dict # {}

\* dict.get(key, default)
get(d, key, default) == IF key \in DOMAIN d THEN d[key] ELSE default

session_id_of(payload) == get(payload.dict, "session_id", SENTINEL)

(***************************************************************************)
(* The record file.                                                        *)
(***************************************************************************)
\* The directory tempfile.gettempdir() falls back on, and another one that
\* the environment may name.
DefaultTmp == "/tmp"
AltTmp == "/d"
Dirs == {DefaultTmp, AltTmp}

\* An environment variable that is not set.
Unset == ""

\* tempfile.gettempdir(): the directory TMPDIR names, when it is set, and
\* the default one otherwise.  No other variable of the environment counts.
gettempdir(env) == IF env.TMPDIR # Unset THEN env.TMPDIR ELSE DefaultTmp

\* The record of a session under a directory.
RecordAt(dir, session) == <<dir, "mgrep-watch-pid-", session, ".txt">>
PidFiles == { RecordAt(d, s) : d \in Dirs, s \in Sessions }

\* A path holds no file, or a file: its text and the invocation whose open()
\* created it (0: it was there before the first invocation).
Absent == [exists |-> FALSE, text |-> <<>>, ino |-> 0]
File(t, i) == [exists |-> TRUE, text |-> t, ino |-> i]

\* Writing text at offset 0 of a file that holds old.
Overlay(old, new) ==
    IF Len(old) > Len(new) THEN new \o SubSeq(old, Len(new) + 1, Len(old)) ELSE new

(***************************************************************************)
(* Output and exit status.                                                 *)
(***************************************************************************)
Advisory == [hookSpecificOutput |-> [hookEventName |-> "SessionStart",
                                      additionalContext |-> "CRITICAL: use mgrep"]]
ErrorPayload == [error |-> "No payload received"]

\* The exit status of an invocation that has not exited.
Running == 0 - 1

VARIABLES
    platform,   \* sys.platform: "posix" or "win32"
    environ,    \* os.environ: the values of TMPDIR and MGREP_TMP
    files,      \* the record files: [PidFiles -> Absent or File(..)]
    proc,       \* the process table over PidPool
    inv,        \* the hook invocations
    kills,      \* the termination requests issued, in order
    spawns      \* the processes spawned by launchers, in order

vars == <<platform, environ, files, proc, inv, kills, spawns>>

\* TEMP_DIR = Path(tempfile.gettempdir()), in both hooks, and the record
\* path TEMP_DIR / f"mgrep-watch-pid-{session_id}.txt" of both.
TEMP_DIR == gettempdir(environ)
pid_file(session) == RecordAt(TEMP_DIR, session)

\* The environment without TMPDIR and without MGREP_TMP.
NoOverride == [TMPDIR |-> Unset, MGREP_TMP |-> Unset]

Free == [kind |-> "free", session |-> ""]
Other == [kind |-> "other", session |-> ""]
Watch(s) == [kind |-> "watch", session |-> s]

\* An invocation: which hook it runs, where it is, what it read, the pid it
\* holds (the spawned process's, or the one read from the record), the inode
\* its open record handle names, and what it has written, logged and returned.
NoHandle == 0 - 1
Idle == [role |-> "idle", pc |-> "idle", stdin |-> StdinBlank, session |-> "",
         pid |-> 0, handle |-> NoHandle, exit |-> Running, out |-> <<>>,
         log |-> <<>>]

\* debug_log(message): appends a line to the invocation's diagnostic log; the
\* line carries the pid or the error the message was formatted with.
Line(msg, n, err) == [msg |-> msg, pid |-> n, err |-> err]
debug_log(r, msg, n, err) == [r EXCEPT !.log = Append(@, Line(msg, n, err))]
Logged(r, msg) == \E i \in 1 .. Len(r.log) : r.log[i].msg = msg
\* print(json.dumps(x)): appends a JSON object to standard output.
print(r, payload) == [r EXCEPT !.out = Append(@, payload)]
\* sys.exit(code)
exit(r, code) == [r EXCEPT !.pc = "done", !.exit = code]

Active(p) == inv[p].role # "idle" /\ inv[p].pc # "done"
\* The slots are taken in order.
CanStart(p) == inv[p].role = "idle" /\ (IF p = 1 THEN TRUE ELSE inv[p - 1].role # "idle")

(***************************************************************************)
(* Initial states: the records and processes earlier sessions left behind. *)
(***************************************************************************)
InitialTexts ==
    { str(FirstPid) \o <<"\n">>,     \* a pid, written by hand
      <<>>,                          \* empty
      <<"x">>,                       \* not a number
      <<"0">>,
      str(0 - FirstPid),
      str(PidTMax + 1) }             \* beyond pid_t

\* Session "abc" may have a record, and the process it names may be running.
Init ==
    /\ platform \in {"posix", "win32"}
    /\ environ = NoOverride
    /\ \E f \in {Absent} \cup { File(t, 0) : t \in InitialTexts } :
         files = [g \in PidFiles |-> IF g = pid_file("abc") THEN f ELSE Absent]
    /\ proc \in [PidPool -> {Free, Watch("abc")}]
    /\ \A q \in PidPool : proc[q].kind = "watch" =>
         /\ files[pid_file("abc")].exists
         /\ IntParses(files[pid_file("abc")].text)
         /\ int(files[pid_file("abc")].text) = q
    /\ inv = [p \in Invs |-> Idle]
    /\ kills = <<>>
    /\ spawns = <<>>


(***************************************************************************)
(* mgrep_watch.py: the launcher.                                           *)
(***************************************************************************)
\* find_mgrep_executable(): shutil.which("mgrep"), and on Windows also
\* shutil.which("mgrep.cmd") and %APPDATA%/npm/mgrep.cmd.
find_mgrep_executable(plat, onPath, cmdOnPath, npmCmd) ==
    onPath \/ (plat = "win32" /\ (cmdOnPath \/ npmCmd))

\* The response every exit-0 path of the launcher prints before sys.exit(0).
Respond(r) == exit(print(r, Advisory), 0)

\* Lines 116-126: the except clause logs the exception, and the invocation
\* goes on to its response.
SpawnFailedRaises(r, n) == exit(r, 1)

SpawnFailed(r, n) ==
    Respond(debug_log(r, "Failed to start mgrep watch", n, "OSError"))

\* WatchStart without the sys.exit(1) of line 58.
WatchStartNoExit(p) ==
    /\ CanStart(p)
    /\ \E raw \in Stdins :
         LET payload == read_hook_input(raw)
             r0 == [Idle EXCEPT !.role = "launcher", !.stdin = raw]
             r1 == IF ~Truthy(payload)
                   THEN print(debug_log(r0, "No payload received", 0, ""), ErrorPayload)
                   ELSE r0
         IN  inv' = [inv EXCEPT ![p] =
                [r1 EXCEPT !.session = session_id_of(payload), !.pc = "check"]]
    /\ UNCHANGED <<platform, environ, files, proc, kills, spawns>>

\* Lines 54-61: read the payload; without one, report the error and exit 1.
WatchStart(p) ==
    /\ CanStart(p)
    /\ \E raw \in Stdins :
         LET payload == read_hook_input(raw)
             r0 == [Idle EXCEPT !.role = "launcher", !.stdin = raw]
             r1 == IF raw.shape = "notjson"
                   THEN debug_log(r0, "Failed to decode JSON", 0, "JSONDecodeError")
                   ELSE r0
         IN  inv' = [inv EXCEPT ![p] =
                IF ~Truthy(payload)
                THEN exit(print(debug_log(r1, "No payload received", 0, ""),
                                ErrorPayload), 1)
                ELSE [r1 EXCEPT !.session = session_id_of(payload), !.pc = "check"]]
    /\ UNCHANGED <<platform, environ, files, proc, kills, spawns>>

\* WatchCheck without the pid_file.exists() test.
WatchCheckBlind(p) ==
    /\ inv[p].role = "launcher" /\ inv[p].pc = "check"
    /\ inv' = [inv EXCEPT ![p] = [debug_log(@, "Found mgrep", 0, "") EXCEPT !.pc = "spawn"]]
    /\ UNCHANGED <<platform, environ, files, proc, kills, spawns>>

\* Lines 63-89: an existing record ends the invocation; otherwise look for
\* the executable, and end the invocation when there is none.
WatchCheck(p) ==
    /\ inv[p].role = "launcher" /\ inv[p].pc = "check"
    /\ LET r == inv[p]
           f == pid_file(r.session)
       IN  IF files[f].exists
           THEN inv' = [inv EXCEPT ![p] =
                          Respond(debug_log(r, "PID file already exists", 0, ""))]
           ELSE \E onPath, cmdOnPath, npmCmd \in BOOLEAN :
                  inv' = [inv EXCEPT ![p] =
                    IF find_mgrep_executable(platform, onPath, cmdOnPath, npmCmd)
                    THEN [debug_log(r, "Found mgrep", 0, "") EXCEPT !.pc = "spawn"]
                    ELSE Respond(debug_log(r, "mgrep executable not found", 0, ""))]
    /\ UNCHANGED <<platform, environ, files, proc, kills, spawns>>

\* Lines 91-112: open the command log and start the detached process; any
\* exception is logged and the invocation goes on to its response.
WatchSpawn(p) ==
    /\ inv[p].role = "launcher" /\ inv[p].pc = "spawn"
    /\ LET r == inv[p]
       IN  \/ /\ inv' = [inv EXCEPT ![p] = SpawnFailed(r, 0)]
              /\ UNCHANGED <<proc, spawns>>
           \/ \E q \in PidPool :
                /\ proc[q] = Free
                /\ proc' = [proc EXCEPT ![q] = Watch(r.session)]
                /\ spawns' = Append(spawns, [by |-> p, pid |-> q, session |-> r.session])
                /\ inv' = [inv EXCEPT ![p] =
                     [debug_log(r, "Started mgrep watch process", q, "")
                        EXCEPT !.pid = q, !.pc = "openpid"]]
    /\ UNCHANGED <<platform, environ, files, kills>>

\* WatchOpenPid after a process.wait(): the launcher goes on only when the
\* process it spawned has exited.
WatchOpenPidAfterWait(p) ==
    /\ inv[p].role = "launcher" /\ inv[p].pc = "openpid"
    /\ proc[inv[p].pid] = Free
    /\ LET r == inv[p]
           f == pid_file(r.session)
       IN  \/ /\ inv' = [inv EXCEPT ![p] = SpawnFailed(r, r.pid)]
              /\ UNCHANGED files
           \/ LET i == IF files[f].exists THEN files[f].ino ELSE p
              IN  /\ files' = [files EXCEPT ![f] = File(<<>>, i)]
                  /\ inv' = [inv EXCEPT ![p] = [r EXCEPT !.handle = i, !.pc = "writepid"]]
    /\ UNCHANGED <<platform, environ, proc, kills, spawns>>

\* Line 113: open(pid_file, "w") creates the record, or truncates the one
\* that is there.
WatchOpenPid(p) ==
    /\ inv[p].role = "launcher" /\ inv[p].pc = "openpid"
    /\ LET r == inv[p]
           f == pid_file(r.session)
       IN  \/ /\ inv' = [inv EXCEPT ![p] = SpawnFailed(r, r.pid)]
              /\ UNCHANGED files
           \/ LET i == IF files[f].exists THEN files[f].ino ELSE p
              IN  /\ files' = [files EXCEPT ![f] = File(<<>>, i)]
                  /\ inv' = [inv EXCEPT ![p] = [r EXCEPT !.handle = i, !.pc = "writepid"]]
    /\ UNCHANGED <<platform, environ, proc, kills, spawns>>

\* WatchWritePid that writes the pid as a line, with the newline.
WatchWritePidLine(p) ==
    /\ inv[p].role = "launcher" /\ inv[p].pc = "writepid"
    /\ LET r == inv[p]
           f == pid_file(r.session)
           r1 == [r EXCEPT !.handle = NoHandle]
       IN  \/ /\ inv' = [inv EXCEPT ![p] = SpawnFailed(r1, r.pid)]
              /\ UNCHANGED files
           \/ /\ files' = IF files[f].exists /\ files[f].ino = r.handle
                          THEN [files EXCEPT ![f].text = Overlay(@, str(r.pid) \o <<"\n">>)]
                          ELSE files
              /\ inv' = [inv EXCEPT ![p] = Respond(r1)]
    /\ UNCHANGED <<platform, environ, proc, kills, spawns>>

\* Lines 114-126: write str(process.pid) through the handle and close it,
\* then respond.  The text reaches the path only while the path still names
\* the file the handle opened.
WatchWritePid(p) ==
    /\ inv[p].role = "launcher" /\ inv[p].pc = "writepid"
    /\ LET r == inv[p]
           f == pid_file(r.session)
           r1 == [r EXCEPT !.handle = NoHandle]
       IN  \/ /\ inv' = [inv EXCEPT ![p] = SpawnFailed(r1, r.pid)]
              /\ UNCHANGED files
           \/ /\ files' = IF files[f].exists /\ files[f].ino = r.handle
                          THEN [files EXCEPT ![f].text = Overlay(@, str(r.pid))]
                          ELSE files
              /\ inv' = [inv EXCEPT ![p] = Respond(r1)]
    /\ UNCHANGED <<platform, environ, proc, kills, spawns>>


(***************************************************************************)
(* mgrep_watch_kill.py: the terminator.                                    *)
(***************************************************************************)
\* kill_process with the Windows branch of the hook's test (os.kill, SIGTERM).
KillMechanismSigterm(plat) == IF plat = "win32" THEN "SIGTERM" ELSE "SIGKILL"

\* What kill_process asks of the operating system, by platform.
KillMechanism(plat) == IF plat = "win32" THEN "taskkill /F /PID" ELSE "SIGKILL"

\* os.kill raises OverflowError for a pid that does not fit the C int.
FitsPidT(n) == (0 - PidTMax) - 1 <= n /\ n <= PidTMax

\* A termination request that reaches no process, as signal 0 (the
\* existence probe) would.
ReachedNothing(plat, n) == {}

\* The processes of the pool a termination request for n reaches.  POSIX:
\* n > 0 is that process, n = -1 is every process the caller may signal,
\* n < -1 is the process group -n (a watch process leads its own group, by
\* os.setsid).  taskkill /PID n: that process.
Reached(plat, n) ==
    IF plat = "win32" \/ n > 0
    THEN { q \in PidPool : q = n /\ proc[q] # Free }
    ELSE IF n = 0 - 1 THEN { q \in PidPool : proc[q] # Free }
    ELSE { q \in PidPool : q = 0 - n /\ proc[q].kind = "watch" }

\* A call of the kill primitive: who made it, how, for which pid, what the
\* pid named at that moment, and how the call ended.
Request(p, plat, n, result) ==
    [by |-> p, mech |-> KillMechanism(plat), target |-> n,
     session |-> inv[p].session,
     was |-> IF n \in PidPool THEN proc[n] ELSE Free,
     result |-> result]

\* The exit status of a process that SIGKILL ended, as a shell reports it.
KilledBySignal == 128 + 9
\* The exit status of an interpreter that ends on an uncaught exception.
UncaughtException == 1

\* A missing record reported as a failure.
ExitNoRecordFailing == UncaughtException

\* Lines 53-61: log, read the payload; without one, exit 1.
KillStart(p) ==
    /\ CanStart(p)
    /\ \E raw \in Stdins :
         LET payload == read_hook_input(raw)
             r0 == debug_log([Idle EXCEPT !.role = "terminator", !.stdin = raw],
                             "Killing mgrep watch process", 0, "")
             r1 == IF raw.shape = "notjson"
                   THEN debug_log(r0, "Failed to decode JSON", 0, "JSONDecodeError")
                   ELSE r0
         IN  inv' = [inv EXCEPT ![p] =
                IF ~Truthy(payload)
                THEN exit(debug_log(r1, "No payload received", 0, ""), 1)
                ELSE [r1 EXCEPT !.session = session_id_of(payload), !.pc = "check"]]
    /\ UNCHANGED <<platform, environ, files, proc, kills, spawns>>

\* The exit status of the terminator that finds no record (line 65).
ExitNoRecord == 0

\* Lines 63-65: without a record there is nothing to do.
KillCheck(p) ==
    /\ inv[p].role = "terminator" /\ inv[p].pc = "check"
    /\ LET r == inv[p]
       IN  inv' = [inv EXCEPT ![p] =
             IF ~files[pid_file(r.session)].exists
             THEN exit(debug_log(r, "PID file not found", 0, ""), ExitNoRecord)
             ELSE [r EXCEPT !.pc = "read"]]
    /\ UNCHANGED <<platform, environ, files, proc, kills, spawns>>

\* KillRead that takes a record it cannot parse for pid 0 and goes on to
\* the kill.
KillReadDefaultsPid(p) ==
    /\ inv[p].role = "terminator" /\ inv[p].pc = "read"
    /\ LET r == inv[p]
           f == files[pid_file(r.session)]
           n == IF f.exists /\ IntParses(f.text) THEN int(f.text) ELSE 0
       IN  inv' = [inv EXCEPT ![p] =
             [debug_log(r, "Killing mgrep watch process", n, "")
                EXCEPT !.pid = n, !.pc = "signal"]]
    /\ UNCHANGED <<platform, environ, files, proc, kills, spawns>>

\* Lines 67-69 and 76-77: pid = int(pid_file.read_text().strip()); an OSError
\* of the read and the ValueError of int() skip the kill.
KillRead(p) ==
    /\ inv[p].role = "terminator" /\ inv[p].pc = "read"
    /\ LET r == inv[p]
           f == files[pid_file(r.session)]
       IN  inv' = [inv EXCEPT ![p] =
             IF ~f.exists
             THEN [debug_log(r, "Error reading or killing process", 0, "ENOENT")
                     EXCEPT !.pc = "unlink"]
             ELSE IF ~IntParses(f.text)
             THEN [debug_log(r, "Error reading or killing process", 0, "ValueError")
                     EXCEPT !.pc = "unlink"]
             ELSE [debug_log(r, "Killing mgrep watch process", int(f.text), "")
                     EXCEPT !.pid = int(f.text), !.pc = "signal"]]
    /\ UNCHANGED <<platform, environ, files, proc, kills, spawns>>

\* Lines 71-74 with kill_process (lines 34-49).
\*   win32: subprocess.run(["taskkill", "/F", "/PID", str(pid)], check=False)
\*     raises only when taskkill cannot be run (an OSError, caught); its
\*     exit status is not looked at, so a taskkill that did not terminate
\*     the process counts as a kill;
\*   posix: os.kill(pid, signal.SIGKILL) raises OverflowError for a pid beyond
\*     the C int (caught nowhere: the interpreter ends with status 1),
\*     ProcessLookupError when nothing is reached and PermissionError when the
\*     caller may not signal the target (both caught); pid 0 addresses the
\*     caller's own process group, so the caller dies of its own SIGKILL.
KillSignal(p) ==
    /\ inv[p].role = "terminator" /\ inv[p].pc = "signal"
    /\ LET r == inv[p]
           n == r.pid
           hit == Reached(platform, n)
           dead == [q \in PidPool |-> IF q \in hit THEN Free ELSE proc[q]]
           killed == [debug_log(r, "Killed mgrep watch process", n, "")
                        EXCEPT !.pc = "unlink"]
           failed(err) ==
               [debug_log(debug_log(r, "Failed to kill process", n, err),
                          "Process may already be dead", n, "")
                  EXCEPT !.pc = "unlink"]
       IN  IF platform = "win32"
           THEN \/ /\ kills' = Append(kills, Request(p, platform, n, "FileNotFoundError"))
                   /\ inv' = [inv EXCEPT ![p] = failed("FileNotFoundError")]
                   /\ UNCHANGED proc
                \/ /\ kills' = Append(kills, Request(p, platform, n, "returned"))
                   /\ inv' = [inv EXCEPT ![p] = killed]
                   /\ proc' = dead
                \/ /\ hit # {}
                   /\ kills' = Append(kills, Request(p, platform, n, "not terminated"))
                   /\ inv' = [inv EXCEPT ![p] = killed]
                   /\ UNCHANGED proc
           ELSE IF ~FitsPidT(n)
           THEN /\ kills' = Append(kills, Request(p, platform, n, "OverflowError"))
                /\ inv' = [inv EXCEPT ![p] = exit(r, UncaughtException)]
                /\ UNCHANGED proc
           ELSE IF n = 0
           THEN /\ kills' = Append(kills, Request(p, platform, n, "killed the caller"))
                /\ inv' = [inv EXCEPT ![p] = exit(r, KilledBySignal)]
                /\ UNCHANGED proc
           ELSE IF hit = {}
           THEN /\ kills' = Append(kills, Request(p, platform, n, "ESRCH"))
                /\ inv' = [inv EXCEPT ![p] = failed("ESRCH")]
                /\ UNCHANGED proc
           ELSE \/ /\ kills' = Append(kills, Request(p, platform, n, "returned"))
                   /\ inv' = [inv EXCEPT ![p] = killed]
                   /\ proc' = dead
                \/ /\ \E q \in hit : proc[q].kind = "other"
                   /\ kills' = Append(kills, Request(p, platform, n, "EPERM"))
                   /\ inv' = [inv EXCEPT ![p] = failed("EPERM")]
                   /\ UNCHANGED proc
    /\ UNCHANGED <<platform, environ, files, spawns>>

\* On Windows a file that another process holds open cannot be unlinked.
HeldOpen(f) ==
    \E q \in Invs : /\ inv[q].pc = "writepid"
                    /\ pid_file(inv[q].session) = f
                    /\ files[f].exists /\ files[f].ino = inv[q].handle

\* Lines 79-85: pid_file.unlink(); an OSError is logged; exit 0.
KillUnlink(p) ==
    /\ inv[p].role = "terminator" /\ inv[p].pc = "unlink"
    /\ LET r == inv[p]
           f == pid_file(r.session)
           failed(err) == exit(debug_log(r, "Failed to remove PID file", 0, err), 0)
       IN  IF ~files[f].exists
           THEN /\ inv' = [inv EXCEPT ![p] = failed("ENOENT")]
                /\ UNCHANGED files
           ELSE IF platform = "win32" /\ HeldOpen(f)
           THEN /\ inv' = [inv EXCEPT ![p] = failed("EACCES")]
                /\ UNCHANGED files
           ELSE \/ /\ inv' = [inv EXCEPT ![p] = failed("EPERM")]
                   /\ UNCHANGED files
                \/ /\ files' = [files EXCEPT ![f] = Absent]
                   /\ inv' = [inv EXCEPT ![p] =
                        exit(debug_log(r, "Removed PID file", 0, ""), 0)]
    /\ UNCHANGED <<platform, environ, proc, kills, spawns>>

(***************************************************************************)
(* The rest of the system: a watch process may exit on its own, and the    *)
(* operating system may give a free pid to an unrelated process.  The      *)
(* hooks observe the process table only through a termination request, so  *)
(* these steps are taken while a request that addresses the pid is pending.*)
(***************************************************************************)
Addresses(n, q) == q = n \/ q = 0 - n \/ n = 0 - 1
Pending(q) ==
    \E p \in Invs : /\ inv[p].role = "terminator" /\ inv[p].pc = "signal"
                    /\ Addresses(inv[p].pid, q)

WatchExits(q) ==
    /\ Pending(q)
    /\ proc[q].kind = "watch"
    /\ proc' = [proc EXCEPT ![q] = Free]
    /\ UNCHANGED <<platform, environ, files, inv, kills, spawns>>

PidReused(q) ==
    /\ Pending(q)
    /\ proc[q] = Free
    /\ proc' = [proc EXCEPT ![q] = Other]
    /\ UNCHANGED <<platform, environ, files, inv, kills, spawns>>

(***************************************************************************)
(* Specifications.  Spec lets invocations overlap; SpecSeq runs each       *)
(* invocation to completion before the next one starts.                    *)
(***************************************************************************)
Quiet == \A q \in Invs : ~Active(q)

Next ==
    \/ \E p \in Invs : WatchStart(p)
    \/ \E p \in Invs : WatchCheck(p)
    \/ \E p \in Invs : WatchSpawn(p)
    \/ \E p \in Invs : WatchOpenPid(p)
    \/ \E p \in Invs : WatchWritePid(p)
    \/ \E p \in Invs : KillStart(p)
    \/ \E p \in Invs : KillCheck(p)
    \/ \E p \in Invs : KillRead(p)
    \/ \E p \in Invs : KillSignal(p)
    \/ \E p \in Invs : KillUnlink(p)
    \/ \E q \in PidPool : WatchExits(q)
    \/ \E q \in PidPool : PidReused(q)

Spec == Init /\ [][Next]_vars

NextSeq ==
    \/ \E p \in Invs : Quiet /\ WatchStart(p)
    \/ \E p \in Invs : WatchCheck(p)
    \/ \E p \in Invs : WatchSpawn(p)
    \/ \E p \in Invs : WatchOpenPid(p)
    \/ \E p \in Invs : WatchWritePid(p)
    \/ \E p \in Invs : Quiet /\ KillStart(p)
    \/ \E p \in Invs : KillCheck(p)
    \/ \E p \in Invs : KillRead(p)
    \/ \E p \in Invs : KillSignal(p)
    \/ \E p \in Invs : KillUnlink(p)
    \/ \E q \in PidPool : WatchExits(q)
    \/ \E q \in PidPool : PidReused(q)

SpecSeq == Init /\ [][NextSeq]_vars


(***************************************************************************)
(* SpecFair: every operation of a hook is a blocking system call that      *)
(* returns, and the operating system schedules every process, so an        *)
(* invocation that has started keeps taking its steps.  Nothing is assumed *)
(* of the rest of the system: a watch process need never exit.             *)
(***************************************************************************)
Runs(p) ==
    \/ WatchCheck(p) \/ WatchSpawn(p) \/ WatchOpenPid(p) \/ WatchWritePid(p)
    \/ KillCheck(p) \/ KillRead(p) \/ KillSignal(p) \/ KillUnlink(p)

SpecFair == Init /\ [][Next]_vars /\ \A p \in Invs : WF_vars(Runs(p))


(***************************************************************************)
(* SpecEnv: the hooks run one after another with TMPDIR and MGREP_TMP set  *)
(* or not, and a record for session "abc" may lie under the other          *)
(* directory, naming a watch process that may be running.                  *)
(***************************************************************************)
Environs == [TMPDIR : {Unset, AltTmp}, MGREP_TMP : {Unset, AltTmp}]

InitEnv ==
    /\ platform \in {"posix", "win32"}
    /\ environ \in Environs
    /\ \E f \in {Absent, File(str(FirstPid), 0)} :
         files = [g \in PidFiles |-> IF g = RecordAt(AltTmp, "abc") THEN f ELSE Absent]
    /\ \E w \in {Free, Watch("abc")} :
         /\ w # Free => files[RecordAt(AltTmp, "abc")].exists
         /\ proc = [q \in PidPool |-> IF q = FirstPid THEN w ELSE Free]
    /\ inv = [p \in Invs |-> Idle]
    /\ kills = <<>>
    /\ spawns = <<>>

SpecEnv == InitEnv /\ [][NextSeq]_vars


(***************************************************************************)
(* Vocabulary of the properties.                                           *)
(***************************************************************************)
\* The number of steps of the longest path of a hook: start, check, and three
\* more (spawn, open, write; read, kill, unlink).
MaxSteps == 2 + 3

IsLauncher(p) == inv[p].role = "launcher"
IsTerminator(p) == inv[p].role = "terminator"
Done(p) == inv[p].pc = "done"
\* The step is one of invocation p.
StepOf(p) == inv'[p] # inv[p]
\* The step is the one in which invocation p exits.
Exits(p) == inv[p].pc # "done" /\ inv'[p].pc = "done"

KillsBy(p) == { i \in 1 .. Len(kills) : kills[i].by = p }
SpawnsBy(p) == { i \in 1 .. Len(spawns) : spawns[i].by = p }

IsObject(raw) == raw.shape = "object"
HasSession(raw, s) ==
    IsObject(raw) /\ "session_id" \in DOMAIN raw.fields /\ raw.fields["session_id"] = s

\* The operating system refused the removal of a record that was there.
RemovalRefused(r) ==
    \E i \in 1 .. Len(r.log) :
        r.log[i].msg = "Failed to remove PID file" /\ r.log[i].err # "ENOENT"

(***************************************************************************)
(* C1.  A launcher that finds the record of its session spawns nothing,    *)
(* leaves the record (and the process table) as it is, prints the advisory *)
(* payload and exits 0.                                                    *)
(***************************************************************************)
LauncherFindsRecord(p) ==
    /\ IsLauncher(p) /\ inv[p].pc = "check" /\ StepOf(p)
    /\ files[pid_file(inv[p].session)].exists

\* C1: the step in which a launcher finds the record changes nothing and
\* ends the invocation with the advisory payload and status 0.
C1_ExistingRecordIsNoOp ==
    [][\A p \in Invs : LauncherFindsRecord(p) =>
          /\ files' = files /\ proc' = proc /\ spawns' = spawns
          /\ SpawnsBy(p) = {}
          /\ inv'[p].pc = "done" /\ inv'[p].exit = 0
          /\ inv'[p].out = <<Advisory>>]_vars

C1_Witness ==
    \E p \in Invs :
        /\ IsLauncher(p) /\ Done(p) /\ inv[p].exit = 0
        /\ Logged(inv[p], "PID file already exists")
        /\ files[pid_file(inv[p].session)].exists


(***************************************************************************)
(* C2.  A launcher invocation followed at once, without overlap, by a      *)
(* terminator invocation for the same session leaves no record of that     *)
(* session, whether or not the launcher spawned a process (the operating   *)
(* system not refusing the removal).                                       *)
(***************************************************************************)
LaunchThenTerminate(p) ==
    /\ p + 1 \in Invs
    /\ IsLauncher(p) /\ Done(p) /\ inv[p].session \in Sessions
    /\ IsTerminator(p + 1) /\ inv[p + 1].session = inv[p].session

\* C2: when the terminator that follows the launcher exits, the session has
\* no record.
C2_LaunchThenTerminateLeavesNoRecord ==
    [][\A p \in Invs :
          (LaunchThenTerminate(p) /\ Exits(p + 1) /\ ~RemovalRefused(inv'[p + 1]))
              => ~files'[pid_file(inv[p].session)].exists]_vars

(***************************************************************************)
(* C3.  Of two terminator invocations in a row for the same session, the   *)
(* second calls no kill, changes no file and exits 0 (the operating system *)
(* not having refused the first one's removal).                            *)
(***************************************************************************)
TerminateTwice(p) ==
    /\ p + 1 \in Invs
    /\ IsTerminator(p) /\ Done(p) /\ inv[p].session \in Sessions
    /\ ~RemovalRefused(inv[p])
    /\ inv'[p + 1].role = "terminator" /\ inv'[p + 1].session = inv[p].session
    /\ StepOf(p + 1)

\* C3: no step of the second terminator calls kill or changes a file, and
\* it exits 0.
C3_SecondTerminateIsNoOp ==
    [][\A p \in Invs : TerminateTwice(p) =>
          /\ kills' = kills
          /\ files' = files
          /\ Exits(p + 1) => inv'[p + 1].exit = 0]_vars

(***************************************************************************)
(* C4.  A terminator given {"session_id": "abc"} that finds no record for  *)
(* "abc" calls no kill and logs nothing about the record but "PID file not *)
(* found".  As claimed it exits 1 (C4_AsClaimed); the code exits 0         *)
(* (C4_NoRecordExitsZero).                                                 *)
(***************************************************************************)
TerminatorFindsNoRecord(p) ==
    /\ IsTerminator(p) /\ inv[p].pc = "check" /\ StepOf(p)
    /\ HasSession(inv[p].stdin, "abc")
    /\ ~files[pid_file("abc")].exists

NoRecordOutcome(p, status) ==
    /\ inv'[p].pc = "done" /\ inv'[p].exit = status
    /\ kills' = kills /\ KillsBy(p) = {}
    /\ files' = files /\ proc' = proc
    /\ inv'[p].log = <<Line("Killing mgrep watch process", 0, ""),
                       Line("PID file not found", 0, "")>>

\* C4 as claimed: the terminator that finds no record exits 1.
C4_AsClaimed ==
    [][\A p \in Invs : TerminatorFindsNoRecord(p) => NoRecordOutcome(p, 1)]_vars

\* C4 as amended: the terminator that finds no record exits 0.
C4_NoRecordExitsZero ==
    [][\A p \in Invs : TerminatorFindsNoRecord(p) => NoRecordOutcome(p, 0)]_vars

C4_Witness ==
    \E p \in Invs :
        /\ IsTerminator(p) /\ Done(p) /\ HasSession(inv[p].stdin, "abc")
        /\ Logged(inv[p], "PID file not found")
        /\ ~files[pid_file("abc")].exists

(***************************************************************************)
(* C5.  A terminator that reads pid P from the record calls the kill       *)
(* primitive once, for exactly P: os.kill(P, SIGKILL) on a POSIX host,     *)
(* taskkill /F /PID P on a Windows host.  It then removes the record (the  *)
(* record is gone when it exits unless the operating system refused the    *)
(* removal) and exits 0.                                                   *)
(***************************************************************************)
ValidPid(n) == 1 <= n /\ n <= PidTMax

C5_OneRequestForThePid ==
    \A p \in Invs : (IsTerminator(p) /\ Done(p) /\ ValidPid(inv[p].pid)) =>
        /\ Cardinality(KillsBy(p)) = 1
        /\ \A i \in KillsBy(p) :
              /\ kills[i].target = inv[p].pid
              /\ kills[i].mech = IF platform = "win32" THEN "taskkill /F /PID"
                                                       ELSE "SIGKILL"
        /\ inv[p].exit = 0

\* The pid the terminator holds is the one the record's text spells.
C5_ReadsThePid ==
    \A p \in Invs : \A q \in PidPool :
        (/\ IsTerminator(p) /\ inv[p].pc = "read" /\ StepOf(p)
         /\ files[pid_file(inv[p].session)].exists
         /\ files[pid_file(inv[p].session)].text \in {str(q), str(q) \o <<"\n">>})
            => inv'[p].pid = q /\ inv'[p].pc = "signal"

C5_ThenRemoves ==
    \A p \in Invs :
        (/\ IsTerminator(p) /\ ValidPid(inv[p].pid) /\ Exits(p)
         /\ ~RemovalRefused(inv'[p]))
            => /\ KillsBy(p) # {}
               /\ ~files'[pid_file(inv[p].session)].exists

C6_WindowsUsesSigterm ==
    \A p \in Invs :
        (platform = "win32" /\ IsTerminator(p) /\ Done(p) /\ ValidPid(inv[p].pid)) =>
            /\ Cardinality(KillsBy(p)) = 1
            /\ \A i \in KillsBy(p) :
                  kills[i].target = inv[p].pid /\ kills[i].mech = "SIGTERM"

(***************************************************************************)
(* C7.  A launcher whose input is a non-empty JSON object prints exactly   *)
(* one JSON object, the advisory payload, and exits 0, whether the record  *)
(* was there, the executable was not found, the spawn failed or the record *)
(* could not be written; it prints nothing before that.                    *)
(***************************************************************************)
NonEmptyObject(raw) == IsObject(raw) /\ DOMAIN raw.fields # {}

\* C7: a launcher with a non-empty object as input ends with exactly the
\* advisory payload on standard output and status 0.
C7_AlwaysAdvisory ==
    \A p \in Invs : (IsLauncher(p) /\ NonEmptyObject(inv[p].stdin)) =>
        IF Done(p) THEN inv[p].exit = 0 /\ inv[p].out = <<Advisory>>
                   ELSE inv[p].exit = Running /\ inv[p].out = <<>>

\* A launcher that spawned a process and then failed to write the record.
C7_Witness ==
    \E p \in Invs :
        /\ IsLauncher(p) /\ Done(p) /\ NonEmptyObject(inv[p].stdin)
        /\ SpawnsBy(p) # {}
        /\ Logged(inv[p], "Failed to start mgrep watch")
        /\ inv[p].out = <<Advisory>>

(***************************************************************************)
(* C8.  A launcher whose standard input is blank or is not JSON exits 1,   *)
(* prints the error payload and not the advisory one, spawns nothing and   *)
(* creates no record.                                                      *)
(***************************************************************************)
LauncherReadsNoInput(p) ==
    /\ inv[p].role = "idle" /\ inv'[p].role = "launcher"
    /\ inv'[p].stdin.shape \in {"blank", "notjson"}

\* C8: the launcher that reads no payload exits 1 with the error payload
\* and touches neither files nor processes.
C8_NoInputIsAnError ==
    [][\A p \in Invs : LauncherReadsNoInput(p) =>
          /\ inv'[p].pc = "done" /\ inv'[p].exit = 1
          /\ inv'[p].out = <<ErrorPayload>> /\ ErrorPayload # Advisory
          /\ files' = files /\ proc' = proc /\ spawns' = spawns]_vars

C8_Witness ==
    \E p \in Invs :
        /\ IsLauncher(p) /\ Done(p) /\ inv[p].stdin = StdinBlank
        /\ inv[p].exit = 1 /\ inv[p].out = <<ErrorPayload>>

(***************************************************************************)
(* C9.  A terminator that found the record of its session has removed it   *)
(* by the time it exits, whatever the record holds and however the kill    *)
(* call ends (the operating system not refusing the removal).              *)
(***************************************************************************)
FoundRecord(p) == IsTerminator(p) /\ inv[p].pc \in {"read", "signal", "unlink"}

\* C9: when a terminator that found the record exits, the record is gone.
C9_FoundRecordIsRemoved ==
    [][\A p \in Invs : (FoundRecord(p) /\ Exits(p) /\ ~RemovalRefused(inv'[p]))
          => ~files'[pid_file(inv[p].session)].exists]_vars

(***************************************************************************)
(* C10.  A terminator exits non-zero exactly when its standard input was   *)
(* blank or could not be parsed; on every parsed input it exits 0.         *)
(***************************************************************************)
\* C10: a terminator's exit status is non-zero if and only if its input was
\* blank or not JSON.
C10_OnlyInputErrorsFail ==
    \A p \in Invs : (IsTerminator(p) /\ Done(p)) =>
        (inv[p].exit # 0 <=> inv[p].stdin.shape \in {"blank", "notjson"})

(***************************************************************************)
(* C11.  One terminator invocation makes at most one termination request,  *)
(* makes it before it removes the record, and makes none when the record   *)
(* is absent or does not parse as an integer.                              *)
(***************************************************************************)
\* The terminator found no record, or could not read a pid from it.
NoPidRead(p) ==
    \/ Logged(inv[p], "PID file not found")
    \/ Logged(inv[p], "Error reading or killing process")

\* The terminator has been through its removal of the record.
RemovalAttempted(p) ==
    \/ Logged(inv[p], "Removed PID file")
    \/ Logged(inv[p], "Failed to remove PID file")

C11_AtMostOneRequest ==
    \A p \in Invs : IsTerminator(p) =>
        /\ Cardinality(KillsBy(p)) <= 1
        /\ NoPidRead(p) => KillsBy(p) = {}

\* The record of the terminator's session, as the step finds it.
RecordSeen(p) == files[pid_file(inv[p].session)]

C11_RequestThenRemoval ==
    \A p \in Invs : (IsTerminator(p) /\ StepOf(p)) =>
        /\ (inv[p].pc = "check" /\ ~RecordSeen(p).exists) => inv'[p].pc = "done"
        /\ (inv[p].pc = "read" /\ ~(RecordSeen(p).exists /\ IntParses(RecordSeen(p).text)))
              => inv'[p].pc = "unlink"
        /\ inv[p].pc = "unlink" => inv'[p].pc = "done"
        /\ kills' # kills =>
              /\ inv[p].pc = "signal" /\ KillsBy(p) = {}
              /\ ~RemovalAttempted(p) /\ files' = files
              /\ inv'[p].pc \in {"unlink", "done"}
        /\ files' # files =>
              /\ inv[p].pc = "unlink" /\ kills' = kills
              /\ ~files'[pid_file(inv[p].session)].exists

\* C11: a terminator makes at most one termination request and none without
\* a pid read from the record; the request is made in the signal step, which
\* leaves the files alone, and the record is removed only in the later
\* unlink step, which makes no request.
C11_SignalOnceBeforeRemoval ==
    []C11_AtMostOneRequest /\ [][C11_RequestThenRemoval]_vars

\* A terminator whose request failed (nothing had the pid) made no second
\* one and went on to remove the record.
C11_Witness ==
    \E p \in Invs :
        /\ IsTerminator(p) /\ Done(p)
        /\ Cardinality(KillsBy(p)) = 1
        /\ \A i \in KillsBy(p) : kills[i].result = "ESRCH"
        /\ Logged(inv[p], "Removed PID file")

(***************************************************************************)
(* C12.  A launcher invocation spawns at most one process and creates at   *)
(* most one record; it touches the record only after its spawn succeeded,  *)
(* the record it has written holds exactly the pid of the process it       *)
(* spawned, and without a spawn it creates no record.                      *)
(***************************************************************************)
\* The pids of the processes invocation p spawned.
SpawnedBy(p) == { spawns[i].pid : i \in SpawnsBy(p) }

C12_AtMostOneSpawn ==
    \A p \in Invs : IsLauncher(p) =>
        /\ Cardinality(SpawnsBy(p)) <= 1
        /\ inv[p].pc \in {"openpid", "writepid"} => SpawnedBy(p) = {inv[p].pid}

C12_RecordAfterSpawn ==
    \A p \in Invs : (IsLauncher(p) /\ StepOf(p)) =>
        LET f == pid_file(inv[p].session)
        IN  /\ spawns' # spawns => SpawnsBy(p) = {} /\ files' = files
            /\ files' # files =>
                  /\ SpawnedBy(p) = {inv[p].pid}
                  /\ \A g \in PidFiles : g # f => files'[g] = files[g]
            /\ (\E g \in PidFiles : ~files[g].exists /\ files'[g].exists) =>
                  inv[p].pc = "openpid"
            /\ inv[p].pc = "openpid" => inv'[p].pc \in {"writepid", "done"}
            /\ (inv[p].pc = "writepid"
                  /\ ~Logged(inv'[p], "Failed to start mgrep watch")) =>
                  /\ files'[f].exists
                  /\ files'[f].text = str(inv[p].pid)
                  /\ SpawnedBy(p) = {inv[p].pid}
                  /\ proc[inv[p].pid] = Watch(inv[p].session)

Refers(s, q) ==
    LET f == files[pid_file(s)]
    IN  f.exists /\ IntParses(f.text) /\ int(f.text) = q

\* The running watch processes of session s that its record does not name.
Orphans(s) == { q \in PidPool : proc[q] = Watch(s) /\ ~Refers(s, q) }

\* Launcher l and terminator t ran for the same session, both have exited,
\* and no other invocation was made.
\* The kill mechanism ran and terminated what it reached.
Unhindered(t) ==
    \A i \in KillsBy(t) : kills[i].result \notin {"FileNotFoundError", "not terminated"}

RaceIsOver(l, t) ==
    /\ IsLauncher(l) /\ IsTerminator(t)
    /\ Done(l) /\ Done(t)
    /\ inv[l].session \in Sessions /\ inv[t].session = inv[l].session
    /\ \A q \in Invs \ {l, t} : inv[q].role = "idle"

CreatedByLauncher(f) == files[f].exists /\ files[f].ino \in Invs

\* The text is the decimal form of the pid of a process a launcher spawned
\* for session s.
IsSpawnedPid(text, s) ==
    \E i \in 1 .. Len(spawns) : spawns[i].session = s /\ text = str(spawns[i].pid)

\* The step is one in which invocation p looks at the record of its session:
\* the existence test of either hook, or the terminator's read.
Observes(p) ==
    /\ StepOf(p)
    /\ inv[p].pc \in {"check", "read"}
    /\ CreatedByLauncher(pid_file(inv[p].session))
    /\ \A q \in Invs : ~Logged(inv[q], "Failed to start mgrep watch")

\* C14: the record an invocation finds, when a launcher created it, holds
\* exactly the decimal pid of a process spawned for the session (no launcher
\* having failed at its open or write).
C14_NoPartialRecordObserved ==
    [][\A p \in Invs : Observes(p) =>
          IsSpawnedPid(files[pid_file(inv[p].session)].text, inv[p].session)]_vars

(***************************************************************************)
(* C15.  Every invocation of either hook reaches its exit, in a bounded    *)
(* number of steps whatever path it takes, and the launcher does so        *)
(* whether or not the process it spawned ever exits.                       *)
(***************************************************************************)
\* How far an invocation has come; its exit is position MaxSteps.
Position(pc) ==
    CASE pc = "idle" -> 0
      [] pc = "check" -> 1
      [] pc \in {"spawn", "read"} -> 2
      [] pc \in {"openpid", "signal"} -> 3
      [] pc \in {"writepid", "unlink"} -> 4
      [] pc = "done" -> MaxSteps

C15_EveryStepAdvances ==
    \A p \in Invs : StepOf(p) =>
        /\ Position(inv'[p].pc) > Position(inv[p].pc)
        /\ Position(inv'[p].pc) <= MaxSteps
        /\ IsLauncher(p) => \A q \in PidPool : proc[q] # Free => proc'[q] = proc[q]

\* C15: every step of an invocation moves it forward (so it takes at most
\* MaxSteps steps and a launcher's steps end no process), and an invocation
\* that has started reaches its exit, with no watch process required to exit.
C15_RunsToCompletion ==
    /\ [][C15_EveryStepAdvances]_vars
    /\ \A p \in Invs : (inv[p].role # "idle") ~> Done(p)

\* A launcher has exited and the process it spawned is running.
C15_Witness ==
    \E p \in Invs :
        /\ IsLauncher(p) /\ Done(p) /\ inv[p].exit = 0
        /\ SpawnedBy(p) = {inv[p].pid}
        /\ proc[inv[p].pid] = Watch(inv[p].session)

(***************************************************************************)
(* C16.  An input that is a JSON object without a session_id field, the    *)
(* empty object included, is not an input error: either hook goes on with  *)
(* the session identifier "unknown".                                       *)
(***************************************************************************)
NoSessionField(raw) == IsObject(raw) /\ "session_id" \notin DOMAIN raw.fields

\* C16: an invocation whose input is an object without session_id works on
\* session "unknown" and reports no input error.
C16_MissingSessionIsUnknown ==
    \A p \in Invs : (inv[p].role # "idle" /\ NoSessionField(inv[p].stdin)) =>
        /\ inv[p].session = SENTINEL
        /\ ~Logged(inv[p], "No payload received")
        /\ inv[p].out # <<ErrorPayload>>

(***************************************************************************)
(* C17.  Launcher and terminator compute the same record path for a        *)
(* session, and with MGREP_TMP set to a directory D both look for the      *)
(* record at D/mgrep-watch-pid-<session_id>.txt: a terminator finds the    *)
(* record placed there and removes it.                                     *)
(***************************************************************************)
\* The step is the one in which invocation p tests whether the record of its
\* session exists.
LooksForRecord(p) == StepOf(p) /\ inv[p].pc = "check"

\* C17: with MGREP_TMP set, the path a hook looks at is the one under the
\* directory MGREP_TMP names, and a terminator that exits with status 0
\* leaves no record there (the removal not being refused).
C17_OverrideSelectsTheRecord ==
    [][\A p \in Invs : environ.MGREP_TMP # Unset =>
          LET f == RecordAt(environ.MGREP_TMP, inv[p].session)
          IN  /\ LooksForRecord(p) => pid_file(inv[p].session) = f
              /\ (IsTerminator(p) /\ Exits(p) /\ inv[p].pc # "idle"
                    /\ inv'[p].exit = 0 /\ ~RemovalRefused(inv'[p]))
                 => ~files'[f].exists]_vars

(***************************************************************************)
(* C18.  Every termination request that is delivered targets a positive    *)
(* pid that, at that moment, belongs to a watch process spawned for the    *)
(* terminator's session: never another process, pid 0 or a negative pid.   *)
(***************************************************************************)
\* The operating system acted on request i: it reached a process, or the
\* caller's own process group.
Delivered(i) ==
    \/ kills[i].result \in {"killed the caller", "EPERM", "not terminated"}
    \/ kills[i].result = "returned" /\ kills[i].was # Free

\* C18: a delivered termination request has a positive target, and the
\* target is a running watch process of the session of the terminator.
C18_RequestsHitOwnWatch ==
    \A i \in 1 .. Len(kills) : Delivered(i) =>
        /\ kills[i].target > 0
        /\ kills[i].was = Watch(kills[i].session)

(***************************************************************************)
(* C19.  With launchers only (no terminator), however they overlap, at     *)
(* most one watch process is spawned for a session in total.               *)
(***************************************************************************)
SpawnsFor(s) == { i \in 1 .. Len(spawns) : spawns[i].session = s }

\* Only launchers have been invoked, and none failed at its record.
LaunchersOnly ==
    \A p \in Invs : /\ ~IsTerminator(p)
                    /\ ~Logged(inv[p], "Failed to start mgrep watch")

\* C19: while only launchers have run (each one able to write its record),
\* no session has had more than one watch process spawned for it.
C19_AtMostOneSpawnPerSession ==
    LaunchersOnly => \A s \in Sessions : Cardinality(SpawnsFor(s)) <= 1

(***************************************************************************)
(* C20.  Session isolation: an invocation for one session leaves the       *)
(* record of every other session as it is, and makes no termination        *)
(* request that reaches the process recorded for another session.          *)
(***************************************************************************)
\* The step leaves the record of session t alone.
RecordUntouched(t) == files'[pid_file(t)] = files[pid_file(t)]

\* The step makes a termination request for pid n that reaches the running
\* watch process the record of session t names.
ReachesRecorded(n, t) ==
    /\ kills' # kills
    /\ \E q \in Reached(platform, n) : proc[q] = Watch(t) /\ Refers(t, q)

C20_FilesIsolated ==
    \A p \in Invs : StepOf(p) =>
        \A t \in Sessions : t # inv'[p].session => RecordUntouched(t)

C20_RequestsIsolated ==
    \A p \in Invs : StepOf(p) =>
        \A t \in Sessions : t # inv'[p].session => ~ReachesRecorded(inv[p].pid, t)

\* C20: a step of an invocation changes no record of another session and
\* reaches no process recorded for another session.
C20_SessionsIsolated ==
    [][C20_FilesIsolated /\ C20_RequestsIsolated]_vars

====
